---- MODULE Spec2Model ----
(***************************************************************************)
(* A model of the ringal ring allocator (src/src/lib.rs, header.rs,        *)
(* buffer.rs).  The backing region is an array of 32-bit cells; a cell is  *)
(* kept as the pair (cap, busy) it decodes to as a header word             *)
(* (word = cap * 2 + busy), so that every cell, header or payload, can be  *)
(* read as a header exactly as the scan reads it.                          *)
(***************************************************************************)
EXTENDS Integers, Sequences, FiniteSets, TLC

\* ---------------------------------------------------------------- constants
U32SIZE == 4
MAXALLOC == 2147483647
MINALLOC == 8
MINALLOCBYTES == MINALLOC * U32SIZE
\* tests.rs: BUFSIZE, the ring of the FIFO scenario
BUFSIZE == 1024

\* ---------------------------------------------------------------- bounds
\* capacity in bytes handed to Ringal::new by the general specification
RingBytes == 128
\* live mutable buffers at one time
MaxBufs == 3
\* handles of shared buffers at one time
MaxHandles == 3
\* refcount cells at one time (shared buffers alive at one time)
MaxRc == 2
\* fills of a mutable buffer through DerefMut in one run
MaxPokes == 2
\* calls of fixed, writer and write in one run
MaxOps == 6
\* changes of the request size in one run of the FIFO loop
MaxSwitch == 1
\* bytes of room below MAXALLOCBYTES left to the writer at the limit
MaxRoom == 12

\* byte sizes requested from fixed and writer
ReqBytes == {16, MINALLOCBYTES + 4, MINALLOCBYTES + 16}
\* lengths of the slices handed to write
WriteLens == {2 * MINALLOCBYTES + 8, 4 * RingBytes}
\* values of the bytes a write copies and a fill stores
DataBytes == {0, 1}
\* byte sizes requested by the FIFO loop (tests.rs test_continuous_realloc: `i`)
FifoBytes == {MINALLOCBYTES + 4 * k : k \in 0..7} \cup {2 * MINALLOCBYTES - 1}

VARIABLES
    region,   \* the leaked boxed slice of cells (Ringal::new `buffer`)
    end,      \* Ringal.end: index of the last cell
    head,     \* Ringal.head
    writer,   \* the live BufferWriter, or NoWriter
    bufs,     \* the live BufferMut values, oldest first
    handles,  \* the Buffer values (handles of shared buffers) and their drop position
    rcs,      \* the out-of-band refcount cells
    pokes,    \* number of fills made so far
    ops,      \* number of calls of fixed, writer and write made so far
    room,     \* a writer on a segment of MAXALLOC cells: the bytes it can still
              \* accept below MAXALLOCBYTES, and its last call of write
    fifo,     \* the FIFO loop: its request size `i` and the changes of it so far
    fault,    \* "ok", or why the producer no longer runs: "hang", "oob"
    last      \* the last call of fixed, writer or write, whether it found
              \* the segment at head busy (blocked), its outcome, and the
              \* header of the buffer dropped since (freed)

vars == <<region, end, head, writer, bufs, handles, rcs, pokes, ops, room, fifo, fault, last>>

\* Ringal.start: the region is indexed from its first cell
start == 0

NoPtr == -1
NoWriter == [header |-> NoPtr, initialized |-> 0, capacity |-> 0]

Min(a, b) == IF a < b THEN a ELSE b
Max(a, b) == IF a > b THEN a ELSE b

RECURSIVE next_power_of_two(_)
next_power_of_two(n) == IF n <= 1 THEN 1 ELSE 2 * next_power_of_two((n + 1) \div 2)

\* ---------------------------------------------------------------- header word
\* Header::store: size << 1 (sizes stay below 2^31 within the bounds)
store(m, p, size) == [m EXCEPT ![p] = [cap |-> size, busy |-> 0]]
\* Header::set: fetch_or(1)
set(m, p) == [m EXCEPT ![p].busy = 1]
\* a release that leaves the busy bit as it is
unsetKeepsBusy(m, p) == m
\* Header::unset: fetch_and(u32::MAX << 1)
unset(m, p) == [m EXCEPT ![p].busy = 0]
\* Header::capacity: load >> 1
capacity(m, p) == m[p].cap
\* Header::available: load & 1 == 0
available(m, p) == m[p].busy = 0

\* ---------------------------------------------------------------- Ringal::new
\* the cells of a ring of `bytes` bytes: cell i holds min(MAXALLOC, cap - i - 1) << 1
NewCells(bytes) == next_power_of_two(bytes) \div U32SIZE
new(bytes) ==
    LET cap == NewCells(bytes)
    IN [i \in 0..(cap - 1) |-> [cap |-> Min(MAXALLOC, cap - i - 1), busy |-> 0]]

\* ---------------------------------------------------------------- Ringal::advance
\* the cell the scan reads after a free segment that was too small
ScanNext(current, size) == current + size + U32SIZE

\* the loop of advance.  "found": left by break; "none": left by `?`;
\* "loop": the scan wrapped a second time, which puts it in the state it was
\* in after the first wrap (start, 0, wrapped) over unchanged memory, so the
\* loop never ends.
RECURSIVE Scan(_, _, _, _, _, _, _)
Scan(m, en, hd, cap, current, accumulated, wrapped) ==
    IF ~available(m, current)
    THEN [st |-> "none", accumulated |-> 0, wrapped |-> wrapped]
    ELSE LET size == capacity(m, current)
             acc1 == accumulated + size
         IN IF acc1 >= cap
            THEN [st |-> "found", accumulated |-> acc1, wrapped |-> wrapped]
            ELSE LET next == ScanNext(current, size)
                     wraps == next >= en
                     cur2 == IF wraps THEN start ELSE next
                     acc2 == IF wraps THEN 0 ELSE acc1 + 1
                 IN IF hd = cur2
                    THEN [st |-> "none", accumulated |-> 0, wrapped |-> wrapped]
                    ELSE IF wraps /\ wrapped
                    THEN [st |-> "loop", accumulated |-> 0, wrapped |-> wrapped]
                    ELSE Scan(m, en, hd, cap, cur2, acc2, wrapped \/ wraps)

\* the capacity stored in the free tail header left by a split
TailCapacity(accumulated, cap, distance) == Min(accumulated - cap, distance)

\* a commit that leaves head past the segment even at the end of the region
CommitHeadUnclamped(m, en, hd, cap, accumulated, wrapped) ==
    LET h == IF wrapped THEN start ELSE hd
        c == IF accumulated - cap <= MINALLOC THEN accumulated ELSE cap
    IN [st |-> "found", mem |-> store(m, h, c), head |-> h + c + 1, header |-> h, cap |-> c]

\* the commit of advance, after the loop broke with `accumulated`
Commit(m, en, hd, cap, accumulated, wrapped) ==
    LET h == IF wrapped THEN start ELSE hd
        c == IF accumulated - cap <= MINALLOC THEN accumulated ELSE cap
        m1 == store(m, h, c)
        next == h + c + 1
    IN IF next >= en
       THEN [st |-> "found", mem |-> m1, head |-> start, header |-> h, cap |-> c]
       ELSE [st |-> "found",
             mem |-> IF accumulated - cap > MINALLOC
                     THEN unset(store(m1, next, TailCapacity(accumulated, cap, en - next)), next)
                     ELSE m1,
             head |-> next, header |-> h, cap |-> c]

\* a failure that leaves head at the start of the region
FailedAtStart(st, m, hd) == [st |-> st, mem |-> m, head |-> start, header |-> NoPtr, cap |-> 0]

\* the return of alloc when the scan left by `?` or the size was rejected
Failed(st, m, hd) == [st |-> st, mem |-> m, head |-> hd, header |-> NoPtr, cap |-> 0]

advance(m, en, hd, cap) ==
    LET s == Scan(m, en, hd, cap, hd, 0, FALSE)
    IN IF s.st = "found"
       THEN Commit(m, en, hd, cap, s.accumulated, s.wrapped)
       ELSE Failed(s.st, m, hd)

\* ---------------------------------------------------------------- Ringal::alloc
\* bytes rounded up to whole cells
CellsOf(min) == (min \div U32SIZE) + (IF min % U32SIZE # 0 THEN 1 ELSE 0)

alloc(m, en, hd, min) ==
    LET mn == CellsOf(min)
    IN IF mn >= MINALLOC /\ mn < MAXALLOC
       THEN advance(m, en, hd, mn)
       ELSE Failed("none", m, hd)

\* ---------------------------------------------------------------- state
NoHandle == [st |-> "free", header |-> NoPtr, len |-> 0, cap |-> 0, rc |-> 0, count |-> 0]
NoRc == [val |-> 0, live |-> FALSE, cloned |-> FALSE, unsets |-> 0]
NoRoom == [left |-> NoPtr, before |-> 0, len |-> 0, ret |-> "none", count |-> 0]
NoOp == [op |-> "new", min |-> 0, st |-> "found", header |-> NoPtr, cap |-> 0,
         blocked |-> FALSE, freed |-> NoPtr]

InitWith(bytes) ==
    /\ region = new(bytes)
    /\ end = NewCells(bytes) - 1
    /\ head = start
    /\ writer = NoWriter
    /\ bufs = <<>>
    /\ handles = [h \in 1..MaxHandles |-> NoHandle]
    /\ rcs = [r \in 1..MaxRc |-> NoRc]
    /\ pokes = 0
    /\ ops = 0
    /\ fifo = [i |-> MINALLOCBYTES, switched |-> 0]
    /\ room = NoRoom
    /\ fault = "ok"
    /\ last = NoOp

Init == InitWith(RingBytes)

\* the producer runs: no scan hangs, nothing was written outside the region,
\* and no writer borrows the ring
Running == fault = "ok"
RingFree == Running /\ writer = NoWriter
\* one more call within the bound on calls
Spend == ops < MaxOps /\ ops' = ops + 1

\* ---------------------------------------------------------------- Ringal::fixed
\* the byte length of the slice fixed builds over the payload
FixedLen(min, cap) == cap

fixed(min) ==
    /\ RingFree
    /\ Len(bufs) < MaxBufs
    /\ LET a == alloc(region, end, head, min)
       IN /\ last' = [op |-> "fixed", min |-> min, st |-> a.st, header |-> a.header,
                   cap |-> a.cap, blocked |-> ~available(region, head), freed |-> NoPtr]
          /\ IF a.st = "found"
             THEN /\ region' = set(a.mem, a.header)
                  /\ head' = a.head
                  /\ bufs' = Append(bufs, [header |-> a.header, len |-> FixedLen(min, a.cap), cap |-> a.cap])
                  /\ fault' = fault
             ELSE /\ fault' = IF a.st = "loop" THEN "hang" ELSE fault
                  /\ UNCHANGED <<region, head, bufs>>
    /\ UNCHANGED <<room, fifo, end, writer, handles, rcs, pokes>>

Fixed == \E min \in ReqBytes : Spend /\ fixed(min)

\* ---------------------------------------------------------------- Drop for BufferMut
RemoveAt(s, i) == [j \in 1..(Len(s) - 1) |-> IF j < i THEN s[j] ELSE s[j + 1]]

dropMut(i) ==
    /\ fault # "oob"
    /\ region' = unset(region, bufs[i].header)
    /\ bufs' = RemoveAt(bufs, i)
    /\ last' = [last EXCEPT !.freed = bufs[i].header]
    /\ UNCHANGED <<room, fifo, end, head, writer, handles, rcs, pokes, ops, fault>>

DropMut == \E i \in 1..Len(bufs) : dropMut(i)

\* ---------------------------------------------------------------- Ringal::writer
Writer ==
    \E min \in ReqBytes :
        /\ RingFree
        /\ LET a == alloc(region, end, head, min)
           IN /\ last' = [op |-> "writer", min |-> min, st |-> a.st, header |-> a.header,
                       cap |-> a.cap, blocked |-> ~available(region, head), freed |-> NoPtr]
              /\ IF a.st = "found"
                 THEN /\ region' = a.mem
                      /\ head' = a.head
                      /\ writer' = [header |-> a.header, initialized |-> 0,
                                    capacity |-> capacity(a.mem, a.header) * U32SIZE]
                      /\ fault' = fault
                 ELSE /\ fault' = IF a.st = "loop" THEN "hang" ELSE fault
                      /\ UNCHANGED <<region, head, writer>>
        /\ Spend
        /\ UNCHANGED <<room, fifo, end, bufs, handles, rcs, pokes>>

\* ---------------------------------------------------------------- Ringal::extend
extend(m, en, hd, header, extra) ==
    LET a == alloc(m, en, hd, extra - U32SIZE)
    IN IF a.st = "found"
       THEN [a EXCEPT !.mem = store(a.mem, header, a.cap + 1 + capacity(a.mem, header))]
       ELSE a

\* ---------------------------------------------------------------- Write for BufferWriter
\* the bytes of a cell (little endian) and the cell of four bytes
ByteOf(c, k) ==
    CASE k = 0 -> 2 * (c.cap % 128) + c.busy
      [] k = 1 -> (c.cap \div 128) % 256
      [] k = 2 -> (c.cap \div 32768) % 256
      [] OTHER -> c.cap \div 8388608
CellOf(b0, b1, b2, b3) ==
    [cap |-> (b0 \div 2) + 128 * b1 + 32768 * b2 + 8388608 * b3, busy |-> b0 % 2]

\* copy_from_nonoverlapping: len bytes of value b to byte address at (from start)
CopyBytes(m, at, len, b) ==
    LET New(p, k) == IF 4 * p + k >= at /\ 4 * p + k < at + len THEN b ELSE ByteOf(m[p], k)
    IN [p \in DOMAIN m |->
          IF 4 * p + 3 < at \/ 4 * p >= at + len
          THEN m[p]
          ELSE CellOf(New(p, 0), New(p, 1), New(p, 2), New(p, 3))]

\* the byte address of the writer's `inner`
Inner(header) == U32SIZE * (header + 1)

\* ---------------------------------------------------------------- DerefMut for BufferMut
\* the user fills the slice of buffer i with byte b (BufferMut::init when b = 0)
Fill ==
    \E i \in 1..Len(bufs), b \in DataBytes :
        /\ fault = "ok"
        /\ pokes < MaxPokes
        /\ pokes' = pokes + 1
        /\ region' = CopyBytes(region, Inner(bufs[i].header), bufs[i].len, b)
        /\ fault' = IF Inner(bufs[i].header) + bufs[i].len > U32SIZE * (end + 1)
                    THEN "oob" ELSE fault
        /\ UNCHANGED <<room, fifo, end, head, writer, bufs, handles, rcs, ops, last>>

write(n, b) ==
    /\ Running
    /\ Spend
    /\ writer # NoWriter
    /\ LET len == n
           required == writer.initialized + len
           grows == required > writer.capacity
           extra == Max(required - writer.capacity, MINALLOCBYTES)
           e == IF grows THEN extend(region, end, head, writer.header, extra)
                ELSE [st |-> "fits", mem |-> region, head |-> head, header |-> NoPtr, cap |-> 0]
           at == Inner(writer.header) + writer.initialized
       IN /\ last' = [op |-> "write", min |-> n, st |-> e.st, header |-> e.header,
                   cap |-> e.cap, blocked |-> ~available(region, head), freed |-> NoPtr]
          /\ IF e.st \in {"found", "fits"}
             THEN /\ region' = CopyBytes(e.mem, at, len, b)
                  /\ head' = e.head
                  /\ writer' = [writer EXCEPT
                                  !.capacity = IF grows
                                               THEN capacity(e.mem, writer.header) * U32SIZE
                                               ELSE @,
                                  !.initialized = @ + len]
                  /\ fault' = IF at + len > U32SIZE * (end + 1) THEN "oob" ELSE fault
             ELSE /\ fault' = IF e.st = "loop" THEN "hang" ELSE fault
                  /\ UNCHANGED <<region, head, writer>>
    /\ UNCHANGED <<room, fifo, end, bufs, handles, rcs, pokes>>

Write == \E n \in WriteLens, b \in DataBytes : write(n, b)

\* ---------------------------------------------------------------- BufferWriter::finish
\* a finish that exposes the whole capacity of the segment
FinishLenIsCapacity(initialized, cap) == cap
\* the byte length of the slice finish builds: from_raw_parts_mut(inner, initialized)
FinishLen(initialized, cap) == initialized

Finish ==
    /\ Running
    /\ writer # NoWriter
    /\ Len(bufs) < MaxBufs
    /\ region' = set(region, writer.header)
    /\ bufs' = Append(bufs, [header |-> writer.header,
                             len |-> FinishLen(writer.initialized, writer.capacity),
                             cap |-> writer.capacity \div U32SIZE])
    /\ writer' = NoWriter
    /\ UNCHANGED <<room, fifo, end, head, handles, rcs, pokes, ops, fault, last>>

\* a writer dropped without finish: BufferWriter has no destructor
Abandon ==
    /\ Running
    /\ writer # NoWriter
    /\ writer' = NoWriter
    /\ UNCHANGED <<room, fifo, region, end, head, bufs, handles, rcs, pokes, ops, fault, last>>

\* ---------------------------------------------------------------- BufferMut::freeze
FreeHandles == {h \in 1..MaxHandles : handles[h].st = "free"}
FreeRcs == {r \in 1..MaxRc : ~rcs[r].live}
Lowest(S) == CHOOSE x \in S : \A y \in S : x <= y

Freeze ==
    \E i \in 1..Len(bufs) :
        /\ fault # "oob"
        /\ FreeHandles # {}
        /\ FreeRcs # {}
        /\ LET h == Lowest(FreeHandles)
               r == Lowest(FreeRcs)
           IN /\ rcs' = [rcs EXCEPT ![r] = [val |-> 1, live |-> TRUE, cloned |-> FALSE, unsets |-> 0]]
              /\ handles' = [handles EXCEPT ![h] =
                               [st |-> "live", header |-> bufs[i].header, len |-> bufs[i].len,
                                cap |-> bufs[i].cap, rc |-> r, count |-> 0]]
        /\ bufs' = RemoveAt(bufs, i)
        /\ UNCHANGED <<room, fifo, region, end, head, writer, pokes, ops, fault, last>>

\* ---------------------------------------------------------------- Clone for Buffer
\* a clone that leaves the refcount as it was
CloneCountLost(v) == v
\* fetch_add(1) on the refcount
CloneCount(v) == v + 1

Clone ==
    \E h \in 1..MaxHandles :
        /\ fault # "oob"
        /\ handles[h].st = "live"
        /\ FreeHandles # {}
        /\ LET r == handles[h].rc
           IN /\ rcs' = [rcs EXCEPT ![r].val = CloneCount(@), ![r].cloned = TRUE]
              /\ handles' = [handles EXCEPT ![Lowest(FreeHandles)] = handles[h]]
              /\ fault' = IF rcs[r].live THEN fault ELSE "uaf"
        /\ UNCHANGED <<room, fifo, region, end, head, writer, bufs, pokes, ops, last>>

\* ---------------------------------------------------------------- Drop for Buffer
\* let mut count = self.rc.load(Acquire)
DropLoad ==
    \E h \in 1..MaxHandles :
        /\ fault # "oob"
        /\ handles[h].st = "live"
        /\ handles' = [handles EXCEPT ![h].st = "loop", ![h].count = rcs[handles[h].rc].val]
        /\ fault' = IF rcs[handles[h].rc].live THEN fault ELSE "uaf"
        /\ UNCHANGED <<room, fifo, region, end, head, writer, bufs, rcs, pokes, ops, last>>

\* a drop that takes the last two references for the last one
IsLastOffByOne(count) == count <= 2
\* the holder that leaves the loop by break is the last one
IsLast(count) == count = 1

\* one turn of the loop: break, or compare_exchange(count, count - 1)
DropCas ==
    \E h \in 1..MaxHandles :
        /\ fault # "oob"
        /\ handles[h].st = "loop"
        /\ LET r == handles[h].rc
               count == handles[h].count
           IN IF IsLast(count)
              THEN /\ handles' = [handles EXCEPT ![h].st = "unset"]
                   /\ UNCHANGED <<rcs, fault>>
              ELSE /\ fault' = IF rcs[r].live THEN fault ELSE "uaf"
                   /\ IF rcs[r].val = count
                      THEN /\ rcs' = [rcs EXCEPT ![r].val = count - 1]
                           /\ handles' = [handles EXCEPT ![h] = NoHandle]
                      ELSE /\ handles' = [handles EXCEPT ![h].count = rcs[r].val]
                           /\ rcs' = rcs
        /\ UNCHANGED <<room, fifo, region, end, head, writer, bufs, pokes, ops, last>>

\* self.header.unset()
DropUnset ==
    \E h \in 1..MaxHandles :
        /\ fault # "oob"
        /\ handles[h].st = "unset"
        /\ region' = unset(region, handles[h].header)
        /\ rcs' = [rcs EXCEPT ![handles[h].rc].unsets = @ + 1]
        /\ handles' = [handles EXCEPT ![h].st = "reclaim"]
        /\ UNCHANGED <<room, fifo, end, head, writer, bufs, pokes, ops, fault, last>>

\* Box::from_raw(self.rc): the refcount cell is reclaimed
DropFree ==
    \E h \in 1..MaxHandles :
        /\ fault # "oob"
        /\ handles[h].st = "reclaim"
        /\ rcs' = [rcs EXCEPT ![handles[h].rc].live = FALSE]
        /\ handles' = [handles EXCEPT ![h] = NoHandle]
        /\ fault' = IF rcs[handles[h].rc].live THEN fault ELSE "uaf"
        /\ UNCHANGED <<room, fifo, region, end, head, writer, bufs, pokes, ops, last>>

Next ==
    \/ Fixed
    \/ Writer
    \/ Write
    \/ Finish
    \/ Abandon
    \/ Fill
    \/ DropMut
    \/ Freeze
    \/ Clone
    \/ DropLoad
    \/ DropCas
    \/ DropUnset
    \/ DropFree

Spec == Init /\ [][Next]_vars

\* the producer's side alone: the ring, its writer and its mutable buffers
NextRing ==
    \/ Fixed
    \/ Writer
    \/ Write
    \/ Finish
    \/ Abandon
    \/ Fill
    \/ DropMut

SpecRing == Init /\ [][NextRing]_vars

\* ---------------------------------------------------------------- shared buffers
\* the producer allocates one buffer at a time and hands it to the consumers,
\* which clone and drop it concurrently
Produce == bufs = <<>> /\ FreeRcs # {} /\ Fixed

NextShared ==
    \/ Produce
    \/ DropMut
    \/ Freeze
    \/ Clone
    \/ DropLoad
    \/ DropCas
    \/ DropUnset
    \/ DropFree

SpecShared == Init /\ [][NextShared]_vars

\* ---------------------------------------------------------------- the FIFO loop
\* tests.rs test_continuous_realloc: buffers.push_back(ringal.fixed(i).unwrap())
\* on a queue that holds one buffer; a failed allocation panics, which ends the loop
FifoPush ==
    /\ Len(bufs) <= 1
    /\ last.st = "found"
    /\ fixed(fifo.i)
    /\ UNCHANGED ops

\* buffers.pop_front(): the oldest buffer is dropped
FifoPop == Len(bufs) = 2 /\ dropMut(1)

\* the loop goes on with another request size
FifoSize ==
    \E b \in FifoBytes :
        /\ b # fifo.i
        /\ fifo.switched < MaxSwitch
        /\ fifo' = [i |-> b, switched |-> fifo.switched + 1]
        /\ UNCHANGED <<region, end, head, writer, bufs, handles, rcs, pokes, ops, room, fault, last>>

NextFifo == FifoPush \/ FifoPop \/ FifoSize

SpecFifo == InitWith(BUFSIZE) /\ [][NextFifo]_vars

\* ---------------------------------------------------------------- write at the limit
\* Byte counts near MAXALLOCBYTES are kept as the distance below it:
\* left = MAXALLOCBYTES - initialized.  The writer's segment has MAXALLOC
\* cells, so its capacity is MAXALLOCBYTES and required > capacity is false
\* for every len <= left: write never calls extend.
\* len = buf.len().min(MAXALLOCBYTES - self.initialized)
AcceptLen(n, left) == Min(n, left)
\* the return of write: the Error built when initialized == MAXALLOCBYTES is
\* a value that is dropped, not returned, so the call goes on to Ok(len)
writeReturn(n, left) == [ret |-> "ok", count |-> AcceptLen(n, left)]

\* a writer granted MAXALLOC cells has accepted all but `left` bytes
RoomWriter ==
    \E left \in 0..MaxRoom :
        /\ room = NoRoom
        /\ room' = [NoRoom EXCEPT !.left = left]
        /\ UNCHANGED <<region, end, head, writer, bufs, handles, rcs, pokes, ops, fifo, fault, last>>

\* write(buf) with buf.len() = n on that writer
RoomWrite ==
    \E n \in 0..(MaxRoom + 1) :
        /\ room.left # NoPtr
        /\ LET r == writeReturn(n, room.left)
           IN room' = [left |-> room.left - r.count, before |-> room.left, len |-> n,
                       ret |-> r.ret, count |-> r.count]
        /\ UNCHANGED <<region, end, head, writer, bufs, handles, rcs, pokes, ops, fifo, fault, last>>

NextRoom == RoomWriter \/ RoomWrite

SpecRoom == Init /\ [][NextRoom]_vars

\* ================================================================ properties
\* the holders of live buffers: a mutable buffer, or the handles of one
\* shared buffer (one refcount cell) that have not yet cleared the busy bit
Holding(h) == handles[h].st \in {"live", "loop", "unset"}
Owners == {<<"mut", i>> : i \in 1..Len(bufs)}
            \cup {<<"rc", r>> : r \in {x \in 1..MaxRc : \E h \in 1..MaxHandles :
                                          Holding(h) /\ handles[h].rc = x}}
OwnerRec(o) ==
    IF o[1] = "mut" THEN bufs[o[2]]
    ELSE handles[CHOOSE h \in 1..MaxHandles : Holding(h) /\ handles[h].rc = o[2]]
\* the cells of a segment: its header cell and its payload cells
SegCells(header, cap) == header..(header + cap)
Disjoint(o1, o2) ==
    SegCells(OwnerRec(o1).header, OwnerRec(o1).cap)
        \cap SegCells(OwnerRec(o2).header, OwnerRec(o2).cap) = {}

\* C1: the segments of the live buffers (mutable or shared) are pairwise
\* disjoint, and the segment of the live writer, as returned by the
\* allocations that built it, contains no cell of a live buffer's segment.
C1_LiveStorageDisjoint ==
    /\ \A o1, o2 \in Owners : o1 # o2 => Disjoint(o1, o2)
    /\ writer # NoWriter =>
          \A o \in Owners :
              SegCells(OwnerRec(o).header, OwnerRec(o).cap)
                  \cap SegCells(writer.header, writer.capacity \div U32SIZE) = {}

\* the headers reached from p by stepping capacity + 1 cells, inside the region
RECURSIVE Chain(_, _, _)
Chain(m, en, p) ==
    IF p > en THEN {} ELSE {p} \cup Chain(m, en, p + capacity(m, p) + 1)
\* the sum of (1 + capacity) over the segments of the chain from p
RECURSIVE ChainSum(_, _, _)
ChainSum(m, en, p) ==
    IF p > en THEN 0 ELSE 1 + capacity(m, p) + ChainSum(m, en, p + capacity(m, p) + 1)
\* the cells known to be headers: those of the live buffers and of the writer
KnownHeaders ==
    {OwnerRec(o).header : o \in Owners} \cup (IF writer # NoWriter THEN {writer.header} ELSE {})

\* the handles that still hold the shared buffer of refcount cell r
HoldersOf(r) == {h \in 1..MaxHandles : Holding(h) /\ handles[h].rc = r}

\* C2: in one lifecycle of a shared buffer the busy bit is cleared exactly
\* once, by the last holder: no holder is left once it has been cleared, the
\* handle about to clear it is the only holder, it has been cleared once when
\* the lifecycle has ended, and a lifecycle does not end without clearing it.
C2_BusyClearedOnceByLastDrop ==
    \A r \in 1..MaxRc :
        /\ rcs[r].unsets <= 1
        /\ rcs[r].unsets = 1 => HoldersOf(r) = {}
        /\ \A h \in HoldersOf(r) : handles[h].st = "unset" => HoldersOf(r) = {h}
        /\ (rcs[r].val > 0 /\ ~rcs[r].live) => rcs[r].unsets = 1
        /\ (rcs[r].live /\ rcs[r].unsets = 0) => HoldersOf(r) # {}
\* a shared buffer that was cloned has been released by all its holders
C2_Witness ==
    \E r \in 1..MaxRc : rcs[r].cloned /\ ~rcs[r].live /\ rcs[r].unsets = 1

\* C3: while the producer runs, every header of the chain from start records
\* a capacity that ends inside the region and reaches no further than the
\* next header: no header of a live buffer or of the writer lies among the
\* payload cells it claims.
C3_CapacityIsPayloadToNextHeader ==
    fault = "ok" =>
        \A h \in Chain(region, end, start) :
            /\ h + capacity(region, h) <= end
            /\ \A x \in KnownHeaders : ~(h < x /\ x <= h + capacity(region, h))

\* C4: while the producer runs, the sum of (1 + capacity) over the segments
\* of the chain from start is the number of cells of the ring.
C4_ChainSumIsRingSize == fault = "ok" => ChainSum(region, end, start) = end + 1

\* a call of fixed or writer was made in this step
AllocStep == ops' = ops + 1 /\ last'.op \in {"fixed", "writer"}

\* the walk over the segments from `current`, header to header, meets a
\* segment whose busy bit is 1 before `accumulated` reaches cap cells
RECURSIVE MeetsBusy(_, _, _, _, _, _, _)
MeetsBusy(m, en, hd, cap, current, accumulated, wrapped) ==
    IF ~available(m, current) THEN TRUE
    ELSE IF accumulated + capacity(m, current) >= cap THEN FALSE
    ELSE LET next == current + capacity(m, current) + 1
             wraps == next >= en
             cur2 == IF wraps THEN start ELSE next
         IN IF cur2 = hd \/ (wraps /\ wrapped) THEN FALSE
            ELSE MeetsBusy(m, en, hd, cap, cur2,
                           IF wraps THEN 0 ELSE accumulated + capacity(m, current) + 1,
                           wrapped \/ wraps)

\* C5: an allocation whose walk from head meets a busy segment before it has
\* accumulated the requested cells returns None.
C5_BusyInPathReturnsNone ==
    [][(AllocStep /\ CellsOf(last'.min) >= MINALLOC
          /\ MeetsBusy(region, end, head, CellsOf(last'.min), head, 0, FALSE))
       => last'.st = "none"]_vars

\* C6: after an allocation failed on the busy segment at head and the only
\* holder of that segment dropped it, a request of MINALLOCBYTES succeeds.
C6_SucceedsAfterRelease ==
    (/\ last.op \in {"fixed", "writer"}
     /\ CellsOf(last.min) >= MINALLOC
     /\ last.st = "none"
     /\ last.blocked
     /\ last.freed = head
     /\ fault = "ok"
     /\ \A o \in Owners : OwnerRec(o).header # head)
    => alloc(region, end, head, MINALLOCBYTES).st = "found"
\* C7: a write that extended the writer's segment received a segment that
\* begins at the cell right after the last payload cell of the writer.
C7_ExtendOnlyAdjacent ==
    [][(ops' = ops + 1 /\ last'.op = "write" /\ last'.st = "found")
       => last'.header = writer.header + capacity(region, writer.header) + 1]_vars

WriteOk == ops' = ops + 1 /\ last'.op = "write" /\ last'.st \in {"found", "fits"}
\* a call of finish was made in this step
FinishStep == writer # NoWriter /\ writer' = NoWriter /\ Len(bufs') = Len(bufs) + 1

\* C11: a new writer has accepted no byte, every write that returns Ok adds
\* the length it was given to the bytes accepted, and finish sets the busy
\* bit of the writer's header, leaves its capacity as it was and returns a
\* buffer at that header whose length is the number of bytes accepted.
C11_FinishLengthIsBytesWritten ==
    [][/\ (writer = NoWriter /\ writer' # NoWriter) => writer'.initialized = 0
       /\ WriteOk => writer'.initialized = writer.initialized + last'.min
       /\ FinishStep =>
             /\ ~available(region', writer.header)
             /\ capacity(region', writer.header) = capacity(region, writer.header)
             /\ bufs'[Len(bufs')].header = writer.header
             /\ bufs'[Len(bufs')].len = writer.initialized]_vars
\* a writer that accepted fewer bytes than its segment holds was finished
C11_Witness ==
    \E i \in 1..Len(bufs) :
        /\ bufs[i].len = 2 * MINALLOCBYTES + 8
        /\ bufs[i].len < U32SIZE * bufs[i].cap
        /\ ~available(region, bufs[i].header)
        /\ fault = "ok"

\* the byte at byte address a of the region
ByteAt(m, a) == ByteOf(m[a \div U32SIZE], a % U32SIZE)
\* the writer is the only user of the ring: its segment begins at start and
\* the rest of the ring is one free segment, at head
WriterAlone ==
    /\ writer # NoWriter /\ bufs = <<>> /\ fault = "ok"
    /\ \A h \in 1..MaxHandles : handles[h].st = "free"
    /\ writer.header = start
    /\ head = start + capacity(region, start) + 1
    /\ available(region, head)
    /\ capacity(region, head) = end - head

\* C12: a write on a writer that is alone on the ring, of bytes that fit in
\* the ring with a segment of MINALLOC cells and two headers to spare,
\* returns Ok, stores its bytes inside the region after the bytes written
\* before, and leaves those as they were; finish leaves them too.
C12_WriteThenReadBack ==
    [][/\ (/\ WriterAlone
            /\ ops' = ops + 1 /\ last'.op = "write"
            /\ writer.initialized + last'.min + MINALLOCBYTES + 2 * U32SIZE
                  <= U32SIZE * (end + 1))
           => /\ last'.st \in {"found", "fits"}
              /\ fault' = "ok"
              /\ \A k \in 0..(writer.initialized - 1) :
                    ByteAt(region', Inner(writer.header) + k)
                        = ByteAt(region, Inner(writer.header) + k)
              /\ \E b \in DataBytes :
                    \A k \in writer.initialized..(writer.initialized + last'.min - 1) :
                        ByteAt(region', Inner(writer.header) + k) = b
       /\ (FinishStep /\ fault = "ok")
           => \A k \in 0..(writer.initialized - 1) :
                 ByteAt(region', Inner(writer.header) + k)
                     = ByteAt(region, Inner(writer.header) + k)]_vars

\* C13: once the buffer returned by the last call of fixed has been dropped
\* (no call made since) and no other buffer and no writer is live, the busy
\* bit of its header is 0 and a fixed allocation of the size that call asked
\* for succeeds.
C13_DropThenSameSizeSucceeds ==
    (/\ last.op = "fixed" /\ last.st = "found"
     /\ last.freed = last.header
     /\ bufs = <<>>
     /\ writer = NoWriter /\ fault = "ok")
    => /\ available(region, last.freed)
       /\ alloc(region, end, head, last.min).st = "found"

\* the bytes by which a write of n bytes overflows the writer's capacity
Shortfall(n) == writer.initialized + n - writer.capacity

\* C14: a write that overflows the writer's capacity, by any shortfall from
\* one byte up, returns Ok with the number of bytes it was given whenever the
\* segment right after the writer's segment is at head, free, inside the
\* region and holds the shortfall raised to MINALLOCBYTES.
C14_WriteGrowsIntoAdjacentFreeSegment ==
    [][(/\ ops' = ops + 1 /\ last'.op = "write"
        /\ fault = "ok"
        /\ Shortfall(last'.min) >= 1
        /\ head = writer.header + capacity(region, writer.header) + 1
        /\ head <= end
        /\ available(region, head)
        /\ head + capacity(region, head) <= end
        /\ capacity(region, head) >= CellsOf(Max(Shortfall(last'.min), MINALLOCBYTES)))
       => /\ last'.st = "found"
          /\ writer'.initialized = writer.initialized + last'.min]_vars

\* C15: a write on a writer that has accepted MAXALLOCBYTES bytes returns the
\* max-exceeded error, and a write that would cross the limit accepts the
\* bytes up to the limit.
C15_WriteAtLimitReturnsError ==
    room.ret # "none" =>
        /\ room.before = 0 => room.ret = "max"
        /\ (room.before > 0 /\ room.len > room.before)
              => (room.ret = "ok" /\ room.count = room.before)

\* C16: every scan of an allocation terminates: it wraps to the start of the
\* region at most once and meets head before it could cycle.
C16_ScanTerminates ==
    /\ fault # "hang"
    /\ \A n \in ReqBytes : Running => alloc(region, end, head, n).st # "loop"

\* the cells the loop of advance reads as headers, in the order it reads them
RECURSIVE ScanPath(_, _, _, _, _, _, _)
ScanPath(m, en, hd, cap, current, accumulated, wrapped) ==
    IF ~available(m, current) \/ accumulated + capacity(m, current) >= cap
    THEN <<current>>
    ELSE LET next == ScanNext(current, capacity(m, current))
             wraps == next >= en
             cur2 == IF wraps THEN start ELSE next
         IN IF hd = cur2 \/ (wraps /\ wrapped)
            THEN <<current>>
            ELSE <<current>> \o ScanPath(m, en, hd, cap, cur2,
                     IF wraps THEN 0 ELSE accumulated + capacity(m, current) + 1,
                     wrapped \/ wraps)

\* C17: the scan of an allocation steps from a header to the next one by
\* capacity + 1 cells (or wraps to start), and every cell it reads as a
\* header is a header of the chain of segments from start.
C17_ScanStepsHeaderToHeader ==
    Running =>
        \A n \in ReqBytes :
            CellsOf(n) >= MINALLOC =>
                LET p == ScanPath(region, end, head, CellsOf(n), head, 0, FALSE)
                IN /\ \A i \in 1..(Len(p) - 1) :
                          \/ p[i + 1] = start
                          \/ p[i + 1] = p[i] + capacity(region, p[i]) + 1
                   /\ \A i \in 1..Len(p) : p[i] \in Chain(region, end, start)

\* the cell after the segment (header, cap), or start when that reaches end
PastSegment(header, cap) ==
    IF header + cap + 1 >= end THEN start ELSE header + cap + 1

\* C18: a successful alloc(n) returns a header with busy bit 0 and a capacity
\* of at least ceil(n / 4) cells and leaves head at the cell after the
\* segment, or at start if that cell reaches end; a second allocation that
\* succeeds further up the region starts at the cell after the first segment.
C18_AllocReturnsFreeHeaderAndAdvancesHead ==
    Running =>
        /\ (last.op \in {"fixed", "writer"} /\ last.st = "found") =>
              /\ U32SIZE * last.cap >= last.min
              /\ head = PastSegment(last.header, last.cap)
        /\ \A n \in ReqBytes :
              LET a == alloc(region, end, head, n)
              IN a.st = "found" =>
                    /\ available(a.mem, a.header)
                    /\ capacity(a.mem, a.header) = a.cap
                    /\ a.cap >= (n + U32SIZE - 1) \div U32SIZE
                    /\ a.head = PastSegment(a.header, a.cap)
                    /\ \A n2 \in ReqBytes :
                          LET b == alloc(a.mem, end, a.head, n2)
                          IN (b.st = "found" /\ b.header > a.header)
                                => b.header = a.header + a.cap + 1
\* two allocations in a row, the second right after the first
C18_Witness ==
    /\ fault = "ok" /\ last.op = "fixed" /\ last.st = "found" /\ Len(bufs) = 2
    /\ bufs[1].header = start /\ bufs[2].header = bufs[1].header + bufs[1].cap + 1
    /\ last.header = bufs[2].header /\ head = bufs[2].header + bufs[2].cap + 1

\* C19: after a successful write the header capacity of the writer is its old
\* capacity + the new segment's capacity + 1 if the write extended it, the
\* byte capacity is 4 times the header capacity and at least the bytes
\* written so far, the bytes copied lie in the payload that starts after the
\* writer's header and stays inside the region, and head is the cell right
\* after the extended segment.
C19_WriteKeepsWriterSegmentSound ==
    [][(WriteOk /\ fault = "ok") =>
          /\ last'.st = "found" =>
                /\ capacity(region', writer.header)
                      = capacity(region, writer.header) + last'.cap + 1
                /\ head' = PastSegment(writer.header, capacity(region', writer.header))
          /\ writer'.capacity = U32SIZE * capacity(region', writer.header)
          /\ writer'.capacity >= writer'.initialized
          /\ Inner(writer.header) + writer'.capacity <= U32SIZE * (end + 1)
          /\ fault' = "ok"]_vars

\* the cells on which alloc(min) called in this state performs header.store:
\* the header it returns and, after a split, the tail header at the new head
StoredCells(min) ==
    LET cap == CellsOf(min)
        s == Scan(region, end, head, cap, head, 0, FALSE)
        h == IF s.wrapped THEN start ELSE head
        c == IF s.accumulated - cap <= MINALLOC THEN s.accumulated ELSE cap
        next == h + c + 1
    IN IF alloc(region, end, head, min).st # "found" THEN {}
       ELSE {h} \cup (IF next < end /\ s.accumulated - cap > MINALLOC THEN {next} ELSE {})

\* C20: the producer stores a capacity only on a cell that is the header of
\* no live buffer, so no store meets a consumer's clear of the busy bit.
C20_StoreOnlyOnFreeUnownedHeader ==
    Running =>
        \A n \in ReqBytes :
            \A p \in StoredCells(n) :
                p \notin {OwnerRec(o).header : o \in Owners}

\* the step is a call of fixed, writer or write that returned None or an error
CallFailed == ops' = ops + 1 /\ last'.st = "none"
\* what alloc (for fixed and writer) or extend (for write) returned in that call
FailedCall ==
    IF last'.op = "write"
    THEN extend(region, end, head, writer.header,
                Max(writer.initialized + last'.min - writer.capacity, MINALLOCBYTES))
    ELSE alloc(region, end, head, last'.min)

\* C21: a call of fixed, writer or write that returns None or an error leaves
\* head, every cell of the region, the live buffers and the writer's fill
\* position and capacity as they were, and so does the alloc or extend
\* inside it.
C21_FailedCallChangesNothing ==
    [][CallFailed =>
          /\ region' = region /\ head' = head /\ end' = end
          /\ writer' = writer /\ bufs' = bufs
          /\ FailedCall.st = "none"
          /\ FailedCall.mem = region /\ FailedCall.head = head]_vars
\* a write failed on a writer that had bytes in it, with head inside the ring
C21_Witness ==
    /\ last.op = "write" /\ last.st = "none" /\ fault = "ok"
    /\ writer # NoWriter /\ writer.initialized > 0 /\ head # start

\* the handles that refer to refcount cell r, a drop in progress included
UsersOf(r) == {h \in 1..MaxHandles : handles[h].st # "free" /\ handles[h].rc = r}

\* C22: under every interleaving of clone and drop on the handles of a shared
\* buffer, no operation touches the refcount cell once it is reclaimed (so it
\* is not reclaimed twice), the count stored and every count a drop read is
\* at least 1 and the count stored is the number of handles, the drop that
\* reclaims the cell read 1 and is the only handle left, and a cell not yet
\* reclaimed still has a handle to reclaim it.
C22_RefcountReclaimedOnceByLastDrop ==
    /\ fault # "uaf"
    /\ \A r \in 1..MaxRc :
          rcs[r].live =>
              /\ rcs[r].val >= 1
              /\ rcs[r].val = Cardinality(UsersOf(r))
    /\ \A h \in 1..MaxHandles :
          /\ handles[h].st \in {"loop", "unset", "reclaim"} => handles[h].count >= 1
          /\ handles[h].st \in {"unset", "reclaim"} =>
                /\ handles[h].count = 1
                /\ rcs[handles[h].rc].live
                /\ UsersOf(handles[h].rc) = {h}
\* the last of several handles is about to reclaim the refcount cell
C22_Witness ==
    \E h \in 1..MaxHandles :
        /\ handles[h].st = "reclaim" /\ fault = "ok"
        /\ rcs[handles[h].rc].cloned /\ rcs[handles[h].rc].live

\* C9: with no buffer and no writer live and every busy bit 0, a fixed
\* allocation of the ring's bytes less MINALLOCBYTES succeeds.
C9_EmptyRingGrantsAlmostAll ==
    (/\ bufs = <<>> /\ writer = NoWriter /\ fault = "ok"
     /\ \A h \in 1..MaxHandles : handles[h].st = "free"
     /\ \A p \in DOMAIN region : available(region, p))
    => alloc(region, end, head, U32SIZE * (end + 1) - MINALLOCBYTES).st = "found"

\* C10: fixed(min) on a ring whose segment at head is free and large enough
\* succeeds, sets the busy bit of a segment of at least
\* max(ceil(min / 4), MINALLOC) cells and returns a buffer of min bytes.
C10_FixedLengthIsMin ==
    [][(/\ ops' = ops + 1 /\ last'.op = "fixed"
        /\ available(region, head)
        /\ capacity(region, head) >= Max(CellsOf(last'.min), MINALLOC))
       => /\ last'.st = "found"
          /\ ~available(region', last'.header)
          /\ capacity(region', last'.header) >= Max(CellsOf(last'.min), MINALLOC)
          /\ bufs'[Len(bufs')].len = last'.min]_vars
====
